---- MODULE Spec2Model ----
(***************************************************************************)
(* Span-based anonymization engine: detokenizer, BIO2 gold-span builder,   *)
(* placeholder codec (anonymize / deanonymize) and the corpus evaluator.   *)
(* Strings are sequences of one-character strings; offsets are 0-based and *)
(* half-open as in the Python source.                                      *)
(***************************************************************************)
EXTENDS Integers, Sequences, FiniteSets, TLC

\* ---------------------------------------------------------------- bounds
MaxSpans == 2       \* raw spans one detector call emits
MaxTokens == 3      \* tokens of one dataset entry
MaxExamples == 2    \* examples handed to one evaluate call
MaxCalls == 2       \* evaluate calls made on one Evaluator
MaxEntries == 3     \* entries of one dataset file
MaxLimit == 4       \* largest limit handed to load_dataset

\* ------------------------------------------------------- string helpers
Min(a, b) == IF a < b THEN a ELSE b

\* Python s[a:b] for non-negative a, b: out-of-range indices are clamped
\* and a >= b yields the empty string.
Slice(s, a, b) == SubSeq(s, Min(a, Len(s)) + 1, Min(b, Len(s)))

\* Python s[a:]
SliceFrom(s, a) == SubSeq(s, Min(a, Len(s)) + 1, Len(s))

\* Python s.startswith(p)
StartsWith(s, p) == Len(s) >= Len(p) /\ SubSeq(s, 1, Len(p)) = p

\* Python s.find(sub): 0-based offset of the leftmost occurrence, -1 if none.
Find(s, sub) ==
    LET hits == {k \in 0..(Len(s) - Len(sub)) : SubSeq(s, k + 1, k + Len(sub)) = sub}
    IN  IF hits = {} THEN -1 ELSE CHOOSE k \in hits : \A m \in hits : k <= m

\* variant: s.replace(old, new), every occurrence is replaced
RECURSIVE ReplaceAll(_, _, _)
ReplaceAll(s, old, new) ==
    LET k == Find(s, old)
    IN  IF k < 0 THEN s
        ELSE SubSeq(s, 1, k) \o new
                 \o ReplaceAll(SubSeq(s, k + Len(old) + 1, Len(s)), old, new)

\* Python s.replace(old, new, 1): only the leftmost occurrence is replaced.
ReplaceFirst(s, old, new) ==
    LET k == Find(s, old)
    IN  IF k < 0 THEN s
        ELSE SubSeq(s, 1, k) \o new \o SubSeq(s, k + Len(old) + 1, Len(s))

Digit(d) == CASE d = 0 -> "0" [] d = 1 -> "1" [] d = 2 -> "2" [] d = 3 -> "3"
              [] d = 4 -> "4" [] d = 5 -> "5" [] d = 6 -> "6" [] d = 7 -> "7"
              [] d = 8 -> "8" [] d = 9 -> "9"

\* Python str(n) for n >= 0 (the index formatted by the f-string).
RECURSIVE Decimal(_)
Decimal(n) == IF n < 10 THEN <<Digit(n)>> ELSE Decimal(n \div 10) \o <<Digit(n % 10)>>

\* "".join(parts)
RECURSIVE Join(_)
Join(parts) == IF parts = <<>> THEN <<>> ELSE Head(parts) \o Join(Tail(parts))

\* ------------------------------------------------------ placeholder codec
\* f"<{label}_{idx}>"
Placeholder(label, idx) == <<"<">> \o label \o <<"_">> \o Decimal(idx) \o <<">">>

\* variant: a filter that lets end = start through
KeepSpanLoose(s, e) == e >= s

\* the `if e > s` filter of the detector loop
KeepSpan(s, e) == e > s

\* for p in preds: ... predicted_spans.append({...}) when e > s
RECURSIVE FilterPreds(_, _, _)
FilterPreds(txt, preds, words) ==
    IF preds = <<>> THEN <<>>
    ELSE LET p == Head(preds)
             word == Head(words)
             rest == FilterPreds(txt, Tail(preds), Tail(words))
         IN  IF KeepSpan(p.start, p.end)
             THEN <<[start |-> p.start, end |-> p.end, label |-> p.label,
                     text |-> IF word # <<>> THEN word ELSE Slice(txt, p.start, p.end)]>> \o rest
             ELSE rest

\* variant: an unstable sort that puts a later equal-start span first
RECURSIVE InsertByStartUnstable(_, _)
InsertByStartUnstable(sorted, x) ==
    IF sorted = <<>> THEN <<x>>
    ELSE IF Head(sorted).start < x.start
         THEN <<Head(sorted)>> \o InsertByStartUnstable(Tail(sorted), x)
         ELSE <<x>> \o sorted

\* position at which list.sort(key=start) places x among the sorted prefix:
\* after every element whose key is <= x's key (stable).
RECURSIVE InsertByStart(_, _)
InsertByStart(sorted, x) ==
    IF sorted = <<>> THEN <<x>>
    ELSE IF Head(sorted).start <= x.start
         THEN <<Head(sorted)>> \o InsertByStart(Tail(sorted), x)
         ELSE <<x>> \o sorted

\* variant: the spans are left in detector order
SortByStartSkipped(spans) == spans

\* predicted_spans.sort(key=lambda s: s["start"])
RECURSIVE SortByStart(_)
SortByStart(spans) ==
    IF spans = <<>> THEN <<>>
    ELSE InsertByStart(SortByStart(SubSeq(spans, 1, Len(spans) - 1)), spans[Len(spans)])

\* enumerate(predicted_spans, start=1)
FirstIndex == 1

\* variant: the entity keeps the surface form the span carries
EntityTextFromDetector(txt, span) == span.text

\* the text recorded in an entity
EntityText(txt, span) == Slice(txt, span.start, span.end)

\* variant: a span that starts below the cursor is rejected
RECURSIVE BuildLoopRejectOverlap(_, _, _, _)
BuildLoopRejectOverlap(txt, spans, k, acc) ==
    IF k > Len(spans) THEN acc
    ELSE LET span == spans[k]
             placeholder == Placeholder(span.label, k - 1 + FirstIndex)
         IN  IF span.start < acc.cursor
             THEN BuildLoopRejectOverlap(txt, spans, k + 1, acc)
             ELSE BuildLoopRejectOverlap(txt, spans, k + 1,
                     [parts |-> acc.parts \o <<Slice(txt, acc.cursor, span.start), placeholder>>,
                      cursor |-> span.end,
                      entities |-> Append(acc.entities,
                          [start |-> span.start, end |-> span.end, label |-> span.label,
                           text |-> EntityText(txt, span), replacement |-> placeholder])])

\* the copy-and-append loop; returns [parts, cursor, entities]
RECURSIVE BuildLoop(_, _, _, _)
BuildLoop(txt, spans, k, acc) ==
    IF k > Len(spans) THEN acc
    ELSE LET span == spans[k]
             placeholder == Placeholder(span.label, k - 1 + FirstIndex)
         IN  BuildLoop(txt, spans, k + 1,
                 [parts |-> acc.parts \o <<Slice(txt, acc.cursor, span.start), placeholder>>,
                  cursor |-> span.end,
                  entities |-> Append(acc.entities,
                      [start |-> span.start, end |-> span.end, label |-> span.label,
                       text |-> EntityText(txt, span), replacement |-> placeholder])])

\* anonymize(text) for the detector output preds (with surface forms words)
AnonymizeSpans(txt, preds, words) ==
    LET predicted_spans == SortByStart(FilterPreds(txt, preds, words))
        out == BuildLoop(txt, predicted_spans, 1,
                         [parts |-> <<>>, cursor |-> 0, entities |-> <<>>])
    IN  [anon_text |-> Join(out.parts \o <<SliceFrom(txt, out.cursor)>>),
         entities |-> out.entities]

NoWords(preds) == [k \in 1..Len(preds) |-> <<>>]

\* one step of `for ent in reversed(entities)`
RestoreOne(res, ent) == ReplaceFirst(res, ent.replacement, ent.text)

\* deanonymize(text, metadata)
RECURSIVE Deanonymize(_, _)
Deanonymize(txt, ents) ==
    IF ents = <<>> THEN txt
    ELSE Deanonymize(RestoreOne(txt, ents[Len(ents)]), SubSeq(ents, 1, Len(ents) - 1))

\* ------------------------------------------------------------ detokenizer
\* variant: the last token's flag is honoured too
HasSpaceAfterLast(toks, sa, i) == i <= Len(sa) /\ sa[i]

\* `i < len(tokens) - 1 and space_after[i]` (i is 1-based here)
HasSpaceAfter(toks, sa, i) == i < Len(toks) /\ sa[i]

\* the body of `for i, tok in enumerate(tokens)`; acc = [parts, spans, cursor]
RECURSIVE DetokLoop(_, _, _, _)
DetokLoop(toks, sa, i, acc) ==
    IF i > Len(toks) THEN acc
    ELSE LET tok == toks[i]
             start == acc.cursor
             end == acc.cursor + Len(tok)
             space == HasSpaceAfter(toks, sa, i)
         IN  DetokLoop(toks, sa, i + 1,
                 [parts |-> acc.parts \o (IF space THEN <<tok, <<" ">> >> ELSE <<tok>>),
                  spans |-> Append(acc.spans, <<start, end>>),
                  cursor |-> IF space THEN end + 1 ELSE end])

\* detokenize_with_offsets(tokens, space_after) -> (text, spans)
DetokenizeWithOffsets(toks, sa) ==
    LET out == DetokLoop(toks, sa, 1, [parts |-> <<>>, spans |-> <<>>, cursor |-> 0])
    IN  [text |-> Join(out.parts), spans |-> out.spans]

\* ------------------------------------------------------ gold-span builder
BPrefix == <<"B", "-">>

IPrefix == <<"I", "-">>

\* variant: any I- tag continues the open span
ContinuesRunAnyLabel(tag, label) == StartsWith(tag, IPrefix)

\* tags[j].startswith("I-") and tags[j][2:] == label
ContinuesRun(tag, label) == StartsWith(tag, IPrefix) /\ SliceFrom(tag, 2) = label

\* while j < len(tokens) and <continues>: j += 1   (j is 1-based here)
RECURSIVE RunEnd(_, _, _, _)
RunEnd(toks, tgs, label, j) ==
    IF j <= Len(toks) /\ ContinuesRun(tgs[j], label)
    THEN RunEnd(toks, tgs, label, j + 1)
    ELSE j

\* while i < len(tokens): ...
RECURSIVE Bio2Loop(_, _, _, _, _, _)
Bio2Loop(toks, tgs, txt, tspans, i, acc) ==
    IF i > Len(toks) THEN acc
    ELSE IF StartsWith(tgs[i], BPrefix)
         THEN LET label == SliceFrom(tgs[i], 2)
                  start_char == tspans[i][1]
                  j == RunEnd(toks, tgs, label, i + 1)
                  end_char == tspans[j - 1][2]
              IN  Bio2Loop(toks, tgs, txt, tspans, j,
                      Append(acc, [start |-> start_char, end |-> end_char, label |-> label,
                                   text |-> Slice(txt, start_char, end_char)]))
         ELSE Bio2Loop(toks, tgs, txt, tspans, i + 1, acc)

\* bio2_to_spans(tokens, tags, space_after)
Bio2ToSpans(toks, tgs, sa) ==
    LET d == DetokenizeWithOffsets(toks, sa)
    IN  Bio2Loop(toks, tgs, d.text, d.spans, 1, <<>>)

\* ---------------------------------------------------------------- scorer
\* variant: labels are never compared
ToTupleSetNoLabel(spans, ignore) ==
    {<<spans[k].start, spans[k].end>> : k \in 1..Len(spans)}

\* Evaluator._to_tuple_set(spans)
ToTupleSet(spans, ignore) ==
    IF ignore
    THEN {<<spans[k].start, spans[k].end>> : k \in 1..Len(spans)}
    ELSE {<<spans[k].start, spans[k].end, spans[k].label>> : k \in 1..Len(spans)}

\* tp += len(gold_set & pred_set); fp += len(pred_set - gold_set);
\* fn += len(gold_set - pred_set)
Score(gold, pred, ignore) ==
    LET gold_set == ToTupleSet(gold, ignore)
        pred_set == ToTupleSet(pred, ignore)
    IN  [tp |-> Cardinality(gold_set \cap pred_set),
         fp |-> Cardinality(pred_set \ gold_set),
         fn |-> Cardinality(gold_set \ pred_set)]

\* Metric values are fractions [num, den]; den = 0 stands for the
\* ZeroDivisionError a division by zero raises.
Frac(n, d) == [num |-> n, den |-> d]

ZeroDivisionError == Frac(0, 0)

Raises(x) == x.den = 0

\* the float 0.0
Zero == Frac(0, 1)

\* Python a / b
Divide(a, b) ==
    IF Raises(a) \/ Raises(b) \/ b.num = 0 THEN ZeroDivisionError
    ELSE Frac(a.num * b.den, a.den * b.num)

Times(a, b) ==
    IF Raises(a) \/ Raises(b) THEN ZeroDivisionError ELSE Frac(a.num * b.num, a.den * b.den)

Plus(a, b) ==
    IF Raises(a) \/ Raises(b) THEN ZeroDivisionError
    ELSE Frac(a.num * b.den + b.num * a.den, a.den * b.den)

Positive(a) == ~Raises(a) /\ a.num > 0

\* variant: the division is not guarded
PrecisionUnguarded(tp_, fp_) == Divide(Frac(tp_, 1), Frac(tp_ + fp_, 1))

\* precision = tp / (tp + fp) if (tp + fp) > 0 else 0.0
Precision(tp_, fp_) ==
    IF tp_ + fp_ > 0 THEN Divide(Frac(tp_, 1), Frac(tp_ + fp_, 1)) ELSE Zero

\* recall = tp / (tp + fn) if (tp + fn) > 0 else 0.0
Recall(tp_, fn_) ==
    IF tp_ + fn_ > 0 THEN Divide(Frac(tp_, 1), Frac(tp_ + fn_, 1)) ELSE Zero

\* f1 = (2 * precision * recall / (precision + recall)) if (precision + recall) > 0 else 0.0
F1(precision, recall) ==
    IF Positive(Plus(precision, recall))
    THEN Divide(Times(Times(Frac(2, 1), precision), recall), Plus(precision, recall))
    ELSE Zero

\* the dict evaluate returns
Report(total_, tp_, fp_, fn_) ==
    LET precision == Precision(tp_, fp_)
        recall == Recall(tp_, fn_)
    IN  [samples |-> total_, true_positives |-> tp_, false_positives |-> fp_,
         false_negatives |-> fn_, precision |-> precision, recall |-> recall,
         f1 |-> F1(precision, recall)]

\* variant: an error in deanonymize propagates
CatchesNothing == FALSE

\* `except Exception: pass` around client.deanonymize
CatchesDeanonymizeError == TRUE

\* variant: counters kept on the Evaluator and not reset
InitialCountKept(old) == old

\* the value a counter gets at the top of evaluate (tp = 0, fp = 0, ...)
InitialCount(old) == 0

\* the body of load_dataset's loop: the example built from one dataset entry
Example(entry) ==
    [text |-> DetokenizeWithOffsets(entry.tokens, entry.space_after).text,
     gold_spans |-> Bio2ToSpans(entry.tokens, entry.ner_tags, entry.space_after),
     tokens |-> entry.tokens, tags |-> entry.ner_tags, space_after |-> entry.space_after]

\* limit=None, a limit being <<n>> for the integer n
None == <<>>

\* `for i, ex in enumerate(data)`: the example is appended, then
\* `if limit is not None and len(examples) >= limit: break`
RECURSIVE LoadLoop(_, _, _, _)
LoadLoop(dat, lim, i, exs) ==
    IF i > Len(dat) THEN exs
    ELSE LET appended == Append(exs, Example(dat[i]))
         IN  IF lim # None /\ Len(appended) >= lim[1] THEN appended
             ELSE LoadLoop(dat, lim, i + 1, appended)

\* load_dataset(path, limit) for a file holding the list dat
LoadDataset(dat, lim) == LoadLoop(dat, lim, 1, <<>>)

\* ------------------------------------------------------------------ state
VARIABLES
    text,        \* codec: the source text handed to anonymize
    raw,         \* codec: what the detector returned inside anonymize (offsets, label,
                 \* surface form), in emission order
    cpc,         \* codec: "text" -> "anonymized" -> "restored"
    anon_text,   \* codec: anonymized text returned by anonymize
    entities,    \* codec: metadata["entities"] returned by anonymize
    result,      \* codec: text returned by deanonymize
    tokens,      \* tokenizer: token strings of a dataset entry
    tags,        \* tokenizer: BIO2 tag of each token, as handed to bio2_to_spans
    space_after, \* tokenizer: "a space follows this token" flags
    tpc,         \* tokenizer: "input", "detokenized" or "converted"
    tok_text,    \* tokenizer: text returned by detokenize_with_offsets
    tok_spans,   \* tokenizer: per-token (start, end) returned with it
    gold_spans,  \* tokenizer: spans returned by bio2_to_spans
    examples,    \* evaluator: the examples handed to evaluate
    ignore_labels, \* evaluator: Evaluator.ignore_labels
    epc,         \* evaluator: "ready", "loop", "done" or "aborted"
    pos,         \* evaluator: examples the for loop has consumed
    tp, fp, fn,  \* evaluator: confusion counters of the running call
    deanonym_ok, \* evaluator: fidelity counter of the running call
    total,       \* evaluator: sample counter of the running call
    report,      \* evaluator: dict returned by the last finished call
    calls,       \* evaluator: evaluate calls started so far
    pred_spans,  \* evaluator: metadata["entities"] of the last example
    deanon,      \* evaluator: what deanonymize did on the last example
    first_preds, \* evaluator: what the detector returned per example in the first call
    first_report, \* evaluator: dict returned by the first call
    data,        \* loader: the list json.load returned
    limit,       \* loader: the limit argument of load_dataset
    lpc,         \* loader: "file" or "loaded"
    loaded       \* loader: the list load_dataset returned

codecVars == <<text, raw, cpc, anon_text, entities, result>>

tokVars == <<tokens, tags, space_after, tpc, tok_text, tok_spans, gold_spans>>

evalVars == <<examples, ignore_labels, epc, pos, tp, fp, fn, deanonym_ok, total,
              report, calls, pred_spans, deanon, first_preds, first_report>>

loadVars == <<data, limit, lpc, loaded>>

vars == <<codecVars, tokVars, evalVars, loadVars>>

NoReport ==
    [samples |-> -1, true_positives |-> -1, false_positives |-> -1,
     false_negatives |-> -1, precision |-> Zero, recall |-> Zero, f1 |-> Zero]

EvalIdle ==
    /\ examples = <<>> /\ ignore_labels = FALSE /\ epc = "idle" /\ pos = 0
    /\ tp = 0 /\ fp = 0 /\ fn = 0 /\ deanonym_ok = 0 /\ total = 0
    /\ report = NoReport /\ calls = 0 /\ pred_spans = <<>> /\ deanon = <<>>
    /\ first_preds = <<>> /\ first_report = NoReport

CodecIdle ==
    /\ text = <<>> /\ raw = <<>> /\ cpc = "idle"
    /\ anon_text = <<>> /\ entities = <<>> /\ result = <<>>

TokIdle ==
    /\ tokens = <<>> /\ tags = <<>> /\ space_after = <<>> /\ tpc = "idle"
    /\ tok_text = <<>> /\ tok_spans = <<>> /\ gold_spans = <<>>

LoadIdle ==
    /\ data = <<>> /\ limit = None /\ lpc = "idle" /\ loaded = <<>>

\* ----------------------------------------------------------- codec inputs
SeqsUpTo(S, n) == UNION {[1..k -> S] : k \in 0..n}

\* source texts: plain characters, and texts holding a literal that looks
\* like a placeholder
Texts ==
    { <<>>, <<"a">>, <<"a", "a">>,
      <<"<", "E", "_", "1", ">">>,
      <<"<", "E", "_", "1", ">", "a">> }

\* labels after _map_label / DESCRIPTION_LABEL_MAP
Labels == {<<"E">>, <<"P">>}

\* surface forms a detector may attach to a span ("word" / "text"); empty = absent
Words == {<<>>, <<"w">>}

\* end - start of a detector span
SpanWidths == {-1, 0, 1, 2}

\* spans a detector may emit for txt: offsets inside the text, possibly
\* degenerate (end <= start)
RawSpans(txt) ==
    {[start |-> s, end |-> s + w, label |-> l] :
        <<s, w, l>> \in {q \in (0..Len(txt)) \X SpanWidths \X Labels :
                            q[1] + q[2] >= 0 /\ q[1] + q[2] <= Len(txt)}}

\* -------------------------------------------------------- codec actions
CodecInit ==
    /\ text \in Texts
    /\ raw = <<>>
    /\ cpc = "text"
    /\ anon_text = <<>>
    /\ entities = <<>>
    /\ result = <<>>
    /\ TokIdle
    /\ EvalIdle
    /\ LoadIdle

\* anon_text, metadata = client.anonymize(text); the detector is called
\* inside and returns preds (offsets and label), each with the surface form word
Anonymize ==
    /\ cpc = "text"
    /\ \E preds \in SeqsUpTo(RawSpans(text), MaxSpans) :
       \E word \in Words :
          LET out == AnonymizeSpans(text, preds, [k \in 1..Len(preds) |-> word])
          IN  /\ raw' = [k \in 1..Len(preds) |->
                            [start |-> preds[k].start, end |-> preds[k].end,
                             label |-> preds[k].label, word |-> word]]
              /\ anon_text' = out.anon_text
              /\ entities' = out.entities
    /\ cpc' = "anonymized"
    /\ UNCHANGED <<text, result, tokVars, evalVars, loadVars>>

\* client.deanonymize(anon_text, metadata)
DeanonymizeCall ==
    /\ cpc = "anonymized"
    /\ result' = Deanonymize(anon_text, entities)
    /\ cpc' = "restored"
    /\ UNCHANGED <<text, raw, anon_text, entities, tokVars, evalVars, loadVars>>

CodecNext == Anonymize \/ DeanonymizeCall

SpecCodec == CodecInit /\ [][CodecNext]_vars

\* ------------------------------------------------ codec: claim vocabulary
NonDegenerate(p) == p.end > p.start

\* 0 <= start < end <= len(text) for every span, and no two spans overlap
WellFormedSpans(txt, spans) ==
    /\ \A k \in 1..Len(spans) :
          0 <= spans[k].start /\ spans[k].start < spans[k].end /\ spans[k].end <= Len(txt)
    /\ \A j, k \in 1..Len(spans) :
          j # k => (spans[j].end <= spans[k].start \/ spans[k].end <= spans[j].start)

Triple(p) == <<p.start, p.end, p.label>>

Triples(spans) == [k \in 1..Len(spans) |-> Triple(spans[k])]

\* the spans of a list that start at offset s, in list order
StartingAt(spans, s) == SelectSeq(Triples(spans), LAMBDA t : t[1] = s)

\* every order in which the detector may emit the same collection of spans
Reorderings(spans) ==
    {[k \in 1..Len(spans) |-> spans[f[k]]] : f \in Permutations(1..Len(spans))}

RemoveAt(spans, i) == SubSeq(spans, 1, i - 1) \o SubSeq(spans, i + 1, Len(spans))

Output == [anon_text |-> anon_text, entities |-> entities]

\* C1 (as claimed): round-trip law. Whenever the spans handed to anonymize are
\* well-formed and pairwise non-overlapping, deanonymize applied to the
\* anonymized text and metadata returns exactly the source text, also for
\* source texts that contain placeholder-like substrings.
C1_RoundTrip ==
    (cpc = "restored" /\ WellFormedSpans(text, raw)) => result = text

\* C3: entities are the non-degenerate spans in ascending start order, ties in
\* detector order; the k-th entity's replacement is "<" label "_" k ">", and
\* the replacements of one metadata are pairwise distinct.
C3_EntitiesOrderedAndNumbered ==
    cpc \in {"anonymized", "restored"} =>
        LET kept == SelectSeq(raw, NonDegenerate)
        IN  /\ Len(entities) = Len(kept)
            /\ \A k \in 1..(Len(entities) - 1) : entities[k].start <= entities[k + 1].start
            /\ \A s \in 0..Len(text) : StartingAt(entities, s) = StartingAt(kept, s)
            /\ \A k \in 1..Len(entities) :
                  entities[k].replacement =
                      <<"<">> \o entities[k].label \o <<"_">> \o Decimal(k) \o <<">">>
            /\ \A j, k \in 1..Len(entities) :
                  j # k => entities[j].replacement # entities[k].replacement

\* C3 witness: two entities with the same label and the same surface text
\* that the detector emitted right to left.
C3_Witness ==
    /\ cpc = "anonymized"
    /\ Len(raw) = 2 /\ Len(entities) = 2
    /\ raw[1].start > raw[2].start
    /\ entities[1].label = entities[2].label
    /\ entities[1].text = entities[2].text

\* C4 (as claimed): for a fixed text and a fixed collection of raw spans,
\* every emission order gives the same anonymized text and metadata.
C4_OrderIndependent ==
    cpc = "anonymized" =>
        \A p \in Reorderings(raw) : AnonymizeSpans(text, p, NoWords(p)) = Output

\* no two non-degenerate spans that differ in end or label share a start
TieFree(spans) ==
    \A j, k \in 1..Len(spans) :
        (NonDegenerate(spans[j]) /\ NonDegenerate(spans[k])
            /\ spans[j].start = spans[k].start) => Triple(spans[j]) = Triple(spans[k])

\* C4 (amended): when no two different non-degenerate spans share a start
\* offset, every emission order of the collection gives the same anonymized
\* text and the same metadata.
C4_OrderIndependentTieFree ==
    (cpc = "anonymized" /\ TieFree(raw)) =>
        \A p \in Reorderings(raw) : AnonymizeSpans(text, p, NoWords(p)) = Output

\* C4 witness: two entities from spans the detector emitted right to left.
C4_Witness ==
    /\ cpc = "anonymized"
    /\ TieFree(raw)
    /\ Len(entities) = 2
    /\ raw[1].start > raw[2].start
    /\ entities[1].label # entities[2].label

\* C7: a degenerate raw span yields no entity, and the output equals the
\* output obtained when that span is absent from the detector output.
C7_DegenerateIgnored ==
    cpc = "anonymized" =>
        /\ \A k \in 1..Len(entities) : entities[k].end > entities[k].start
        /\ \A i \in 1..Len(raw) :
              raw[i].end <= raw[i].start =>
                  AnonymizeSpans(text, RemoveAt(raw, i), NoWords(RemoveAt(raw, i))) = Output

\* C7 witness: a degenerate span emitted before a real one.
C7_Witness ==
    /\ cpc = "anonymized"
    /\ Len(raw) = 2
    /\ raw[1].end <= raw[1].start
    /\ raw[1].start <= raw[2].start
    /\ Len(entities) = 1

\* C12: every entity's text is the substring text[start:end] of the source,
\* whatever surface form the detector attached to the span, and the entities'
\* (start, end, label) are those of the non-degenerate detector spans, one
\* entity per span.
C12_EntityTextIsSourceSubstring ==
    cpc \in {"anonymized", "restored"} =>
        LET kept == SelectSeq(raw, NonDegenerate)
        IN  /\ \A k \in 1..Len(entities) :
                  entities[k].text = SubSeq(text, entities[k].start + 1, entities[k].end)
            /\ Len(entities) = Len(kept)
            /\ \E f \in Permutations(1..Len(kept)) :
                  \A k \in 1..Len(kept) : Triple(entities[k]) = Triple(kept[f[k]])

\* C12 witness: the detector attached a surface form that is not the
\* substring its offsets cover, and the span became an entity.
C12_Witness ==
    /\ cpc = "anonymized"
    /\ Len(entities) >= 1
    /\ \E i \in 1..Len(raw) :
          /\ NonDegenerate(raw[i])
          /\ raw[i].word # <<>>
          /\ raw[i].word # SubSeq(text, raw[i].start + 1, raw[i].end)
          /\ Triple(entities[1]) = Triple(raw[i])

\* two non-degenerate spans of the list share a character
Overlapping(spans) ==
    \E i, j \in 1..Len(spans) :
        /\ i # j
        /\ NonDegenerate(spans[i]) /\ NonDegenerate(spans[j])
        /\ spans[i].start < spans[j].end /\ spans[j].start < spans[i].end

\* C13: overlapping spans are neither resolved nor rejected. anonymize
\* returns normally, with one entity per non-degenerate span, overlapping
\* ones included, and every entity's placeholder is in the anonymized text.
C13_OverlapNotRejected ==
    (cpc \in {"anonymized", "restored"} /\ Overlapping(raw)) =>
        /\ Len(entities) = Len(SelectSeq(raw, NonDegenerate))
        /\ \A k \in 1..Len(entities) : Find(anon_text, entities[k].replacement) >= 0
        /\ \E j, k \in 1..Len(entities) : j < k /\ entities[k].start < entities[j].end

\* C13 witness: an overlapping input whose round trip does not give the
\* source text back.
C13_Witness ==
    /\ cpc = "restored"
    /\ Overlapping(raw)
    /\ Len(entities) = 2
    /\ result # text

\* 0-based offsets at which sub occurs in s
Occurrences(s, sub) ==
    {m \in 0..(Len(s) - Len(sub)) : SubSeq(s, m + 1, m + Len(sub)) = sub}

\* the working text of deanonymize once entities Len(entities), ..., k have
\* been handled; WorkingText(Len(entities) + 1) is the anonymized text
WorkingText(k) == Deanonymize(anon_text, SubSeq(entities, k, Len(entities)))

\* C14: deanonymize handles the entities last to first; each step replaces
\* the leftmost occurrence of the entity's replacement by its stored text and
\* nothing else, also when the replacement occurs several times, and the
\* step finds an occurrence for every entity when text and metadata come
\* unedited from anonymize on well-formed non-overlapping spans.
C14_OneSubstitutionPerEntity ==
    cpc = "restored" =>
        /\ result = WorkingText(1)
        /\ \A k \in 1..Len(entities) :
              LET before == WorkingText(k + 1)
                  after == WorkingText(k)
                  occ == Occurrences(before, entities[k].replacement)
              IN  /\ occ = {} => after = before
                  /\ occ # {} =>
                        \E m \in occ :
                            /\ \A o \in occ : m <= o
                            /\ after = SubSeq(before, 1, m) \o entities[k].text
                                  \o SubSeq(before, m + Len(entities[k].replacement) + 1,
                                            Len(before))
                  /\ WellFormedSpans(text, raw) => occ # {}

\* C14 witness: well-formed spans, and a replacement that occurs twice in the
\* text handed to deanonymize.
C14_Witness ==
    /\ cpc = "restored"
    /\ WellFormedSpans(text, raw)
    /\ Len(entities) >= 1
    /\ \E k \in 1..Len(entities) :
          Cardinality(Occurrences(WorkingText(k + 1), entities[k].replacement)) >= 2

\* ------------------------------------------------------ tokenizer inputs
TokenSet == {<<>>, <<"a">>, <<"b", "c">>}

TagSet == { <<"O">>, <<"B", "-", "P">>, <<"I", "-", "P">>,
            <<"B", "-", "E">>, <<"I", "-", "E">> }

\* ----------------------------------------------------- tokenizer actions
TokInit ==
    /\ tokens \in SeqsUpTo(TokenSet, MaxTokens)
    /\ tags = <<>>
    /\ space_after \in [1..Len(tokens) -> BOOLEAN] \cup [1..(Len(tokens) - 1) -> BOOLEAN]
    /\ tpc = "input"
    /\ tok_text = <<>>
    /\ tok_spans = <<>>
    /\ gold_spans = <<>>
    /\ CodecIdle
    /\ EvalIdle
    /\ LoadIdle

\* text, spans = detokenize_with_offsets(tokens, space_after)
Detokenize ==
    /\ tpc = "input"
    /\ LET d == DetokenizeWithOffsets(tokens, space_after)
       IN  /\ tok_text' = d.text
           /\ tok_spans' = d.spans
    /\ tpc' = "detokenized"
    /\ UNCHANGED <<tokens, tags, space_after, gold_spans, codecVars, evalVars, loadVars>>

\* gold_spans = bio2_to_spans(tokens, tgs, space_after)
GoldSpans ==
    /\ tpc = "input"
    /\ \E tgs \in [1..Len(tokens) -> TagSet] :
          /\ tags' = tgs
          /\ gold_spans' = Bio2ToSpans(tokens, tgs, space_after)
    /\ tok_text' = DetokenizeWithOffsets(tokens, space_after).text
    /\ tpc' = "converted"
    /\ UNCHANGED <<tokens, space_after, tok_spans, codecVars, evalVars, loadVars>>

TokNext == Detokenize \/ GoldSpans

SpecTok == TokInit /\ [][TokNext]_vars

\* -------------------------------------------- tokenizer: claim vocabulary
RECURSIVE SumLen(_, _)
SumLen(toks, n) == IF n = 0 THEN 0 ELSE SumLen(toks, n - 1) + Len(toks[n])

\* total length of the tokens before token i plus the number of true flags
\* before it
OffsetOf(toks, sa, i) ==
    SumLen(toks, i - 1) + Cardinality({k \in 1..(i - 1) : sa[k]})

\* C5: detokenizer round-trip. One span per token at the cumulative offset,
\* each span's slice of the text is its token, exactly one space separates
\* token i from token i+1 when flag i is set (nothing otherwise), and nothing
\* follows the last token whatever its flag.
C5_DetokenizerOffsets ==
    tpc = "detokenized" =>
        /\ Len(tok_spans) = Len(tokens)
        /\ \A i \in 1..Len(tokens) :
              /\ tok_spans[i] = << OffsetOf(tokens, space_after, i),
                                   OffsetOf(tokens, space_after, i) + Len(tokens[i]) >>
              /\ Slice(tok_text, tok_spans[i][1], tok_spans[i][2]) = tokens[i]
        /\ \A i \in 1..(Len(tokens) - 1) :
              Slice(tok_text, tok_spans[i][2], tok_spans[i + 1][1]) =
                  (IF space_after[i] THEN <<" ">> ELSE <<>>)
        /\ Len(tok_text) = (IF tokens = <<>> THEN 0 ELSE tok_spans[Len(tokens)][2])
        /\ (tokens = <<>> => tok_text = <<>> /\ tok_spans = <<>>)

\* C5 witness: every token has a flag and the last token's flag is set.
C5_Witness ==
    /\ tpc = "detokenized"
    /\ Len(tokens) = 2 /\ Len(space_after) = 2
    /\ space_after[1] /\ space_after[2]
    /\ tokens[1] # <<>> /\ tokens[2] # <<>>

\* indices of the tokens tagged B-<LABEL>
Openers == {i \in 1..Len(tokens) : StartsWith(tags[i], BPrefix)}

\* the k-th smallest element of a set of integers
RECURSIVE Kth(_, _)
Kth(S, k) ==
    LET m == CHOOSE x \in S : \A y \in S : x <= y
    IN  IF k = 1 THEN m ELSE Kth(S \ {m}, k - 1)

\* last token of the maximal run of I-<label> tokens that directly follows i
LastOfRun(i, label) ==
    CHOOSE j \in i..Len(tokens) :
        /\ \A m \in (i + 1)..j : tags[m] = IPrefix \o label
        /\ (j < Len(tokens) => tags[j + 1] # IPrefix \o label)

\* C6: bio2_to_spans emits exactly one span per B- token, in token order; it
\* runs from that token's start to the end of the last token of the maximal
\* run of directly following I- tokens with the same label, carries the tag's
\* label and the text over that range. O tags, orphan I- tags and I- tags of
\* another label start no span and extend none.
C6_OneSpanPerOpener ==
    tpc = "converted" =>
        /\ Len(gold_spans) = Cardinality(Openers)
        /\ \A k \in 1..Len(gold_spans) :
              LET i == Kth(Openers, k)
                  label == SubSeq(tags[i], 3, Len(tags[i]))
                  j == LastOfRun(i, label)
                  s == OffsetOf(tokens, space_after, i)
                  e == OffsetOf(tokens, space_after, j) + Len(tokens[j])
              IN  gold_spans[k] = [start |-> s, end |-> e, label |-> label,
                                   text |-> SubSeq(tok_text, s + 1, e)]

\* C6 witness: a B-P, I-P run with an interior space, followed by an I- tag of
\* another label.
C6_Witness ==
    /\ tpc = "converted"
    /\ tags = << <<"B", "-", "P">>, <<"I", "-", "P">>, <<"I", "-", "E">> >>
    /\ space_after[1]
    /\ tokens[1] # <<>> /\ tokens[2] # <<>>
    /\ Len(gold_spans) = 1

\* C6 witness of the orphan case: [O, I-P, O] yields no span.
C6_OrphanReached ==
    /\ tpc = "converted"
    /\ tags = << <<"O">>, <<"I", "-", "P">>, <<"O">> >>
    /\ gold_spans = <<>>

\* C11 (as claimed): for any tokens, every span bio2_to_spans returns has
\* 0 <= start < end <= len(text) and text = text[start:end]; the spans are in
\* strictly ascending start order and each span ends at or before the start
\* of the next one.
C11_GoldSpansWellFormed ==
    tpc = "converted" =>
        /\ \A k \in 1..Len(gold_spans) :
              /\ 0 <= gold_spans[k].start
              /\ gold_spans[k].start < gold_spans[k].end
              /\ gold_spans[k].end <= Len(tok_text)
              /\ gold_spans[k].text =
                     SubSeq(tok_text, gold_spans[k].start + 1, gold_spans[k].end)
        /\ \A k \in 1..(Len(gold_spans) - 1) :
              /\ gold_spans[k].start < gold_spans[k + 1].start
              /\ gold_spans[k].end <= gold_spans[k + 1].start

\* C11, the same statement over entries none of whose tokens is empty.
C11_WellFormedWithoutEmptyTokens ==
    (\A i \in 1..Len(tokens) : tokens[i] # <<>>) => C11_GoldSpansWellFormed

\* ------------------------------------------------------ evaluator inputs
\* dataset entries the examples are loaded from: one two-character entity,
\* one entity-free text, and one text with the same empty entity twice
Entries ==
    { [tokens |-> << <<"b", "c">> >>, ner_tags |-> << <<"B", "-", "E">> >>,
       space_after |-> <<FALSE>>],
      [tokens |-> << <<"a">> >>, ner_tags |-> << <<"O">> >>, space_after |-> <<FALSE>>],
      [tokens |-> << <<>>, <<>>, <<"a">> >>,
       ner_tags |-> << <<"B", "-", "P">>, <<"B", "-", "P">>, <<"O">> >>,
       space_after |-> <<FALSE, FALSE, FALSE>>] }

\* what the client's detector may return for txt inside the evaluator:
\* nothing, the whole text under either label, its first character once or
\* twice, or the first character and the whole text
Detections(txt) ==
    LET Whole(l) == [start |-> 0, end |-> Len(txt), label |-> l]
        First == [start |-> 0, end |-> 1, label |-> <<"E">>]
    IN  {<<>>, <<First>>, <<First, First>>, <<First, Whole(<<"E">>)>>}
            \cup {<<Whole(l)>> : l \in Labels}

\* what client.deanonymize may do: run the codec, raise, or return another text
Outcomes == {"codec", "raise", "wrong"}

\* deanon value recording that deanonymize raised
Raised == <<"Exception">>

\* ----------------------------------------------------- evaluator actions
EvalInit ==
    /\ examples \in SeqsUpTo({Example(e) : e \in Entries}, MaxExamples)
    /\ ignore_labels \in BOOLEAN
    /\ epc = "ready"
    /\ pos = 0
    /\ tp = 0 /\ fp = 0 /\ fn = 0 /\ deanonym_ok = 0 /\ total = 0
    /\ report = NoReport
    /\ calls = 0
    /\ pred_spans = <<>>
    /\ deanon = <<>>
    /\ first_preds = <<>>
    /\ first_report = NoReport
    /\ CodecIdle
    /\ TokIdle
    /\ LoadIdle

\* evaluate(examples): the counters are set up and the loop is entered
EvaluateStart ==
    /\ epc \in {"ready", "done"}
    /\ calls < MaxCalls
    /\ tp' = InitialCount(tp)
    /\ fp' = InitialCount(fp)
    /\ fn' = InitialCount(fn)
    /\ deanonym_ok' = InitialCount(deanonym_ok)
    /\ total' = InitialCount(total)
    /\ pos' = 0
    /\ epc' = "loop"
    /\ calls' = calls + 1
    /\ pred_spans' = <<>>
    /\ deanon' = <<>>
    /\ UNCHANGED <<examples, ignore_labels, report, first_preds, first_report,
                   codecVars, tokVars, loadVars>>

\* The detector is a deterministic function of the text: in the first call its
\* output for an example is any detection, in later calls it is the output it
\* gave for that example in the first call.
DetectorOutput(k, txt) ==
    IF calls = 1 THEN Detections(txt) ELSE {first_preds[k]}

\* one iteration of `for ex in examples`
EvaluateExample ==
    /\ epc = "loop"
    /\ pos < Len(examples)
    /\ LET ex == examples[pos + 1]
       IN  \E preds \in DetectorOutput(pos + 1, ex.text), outcome \in Outcomes :
             LET out == AnonymizeSpans(ex.text, preds, NoWords(preds))
                 d == CASE outcome = "codec" -> Deanonymize(out.anon_text, out.entities)
                        [] outcome = "raise" -> Raised
                        [] outcome = "wrong" -> ex.text \o <<"?">>
                 sc == Score(ex.gold_spans, out.entities, ignore_labels)
             IN  /\ total' = total + 1
                 /\ pred_spans' = out.entities
                 /\ deanon' = d
                 /\ IF d = Raised /\ ~CatchesDeanonymizeError
                    THEN /\ epc' = "aborted"
                         /\ UNCHANGED <<pos, tp, fp, fn, deanonym_ok>>
                    ELSE /\ epc' = "loop"
                         /\ pos' = pos + 1
                         /\ deanonym_ok' = IF d = ex.text THEN deanonym_ok + 1 ELSE deanonym_ok
                         /\ tp' = tp + sc.tp
                         /\ fp' = fp + sc.fp
                         /\ fn' = fn + sc.fn
                 /\ first_preds' = IF calls = 1 THEN Append(first_preds, preds)
                                    ELSE first_preds
    /\ UNCHANGED <<examples, ignore_labels, report, calls, first_report, codecVars, tokVars, loadVars>>

\* the metrics are computed and the dict is returned
EvaluateReturn ==
    /\ epc = "loop"
    /\ pos = Len(examples)
    /\ LET r == Report(total, tp, fp, fn)
       IN  IF Raises(r.precision) \/ Raises(r.recall) \/ Raises(r.f1)
           THEN /\ epc' = "aborted"
                /\ UNCHANGED <<report, first_report>>
           ELSE /\ epc' = "done"
                /\ report' = r
                /\ first_report' = IF calls = 1 THEN r ELSE first_report
    /\ UNCHANGED <<examples, ignore_labels, pos, tp, fp, fn, deanonym_ok, total, calls,
                   pred_spans, deanon, first_preds, codecVars, tokVars, loadVars>>

EvalNext == EvaluateStart \/ EvaluateExample \/ EvaluateReturn

SpecEval == EvalInit /\ [][EvalNext]_vars

\* -------------------------------------------- evaluator: claim vocabulary
\* the loop has just consumed one example
ExampleScored == epc = "loop" /\ epc' = "loop" /\ pos' = pos + 1

\* g and p agree on every compared field
SameSpan(g, p) ==
    g.start = p.start /\ g.end = p.end /\ (ignore_labels \/ g.label = p.label)

\* positions of a span list that do not repeat an earlier span of the list
Firsts(lst) == {k \in 1..Len(lst) : \A j \in 1..(k - 1) : ~SameSpan(lst[j], lst[k])}

FoundIn(x, lst) == \E m \in 1..Len(lst) : SameSpan(x, lst[m])

\* C2: per example the totals grow by exact-match set counts: tp by the
\* distinct gold spans some predicted span equals on every compared field, fp
\* by the distinct predicted spans no gold span equals, fn by the distinct
\* gold spans no predicted span equals. Repeated spans count once; partial
\* overlap or a differing compared label is one fp and one fn, never a tp.
C2_ExactMatchCounts ==
    [][ExampleScored =>
          LET gold == examples[pos'].gold_spans
              pred == pred_spans'
          IN  /\ tp' - tp = Cardinality({k \in Firsts(gold) : FoundIn(gold[k], pred)})
              /\ fp' - fp = Cardinality({m \in Firsts(pred) : ~FoundIn(pred[m], gold)})
              /\ fn' - fn = Cardinality({k \in Firsts(gold) : ~FoundIn(gold[k], pred)})]_vars

\* C2 witness: gold (0,2,E); the prediction is (0,1,E) twice, which overlaps
\* the gold span without matching it: one fp, one fn, no tp.
C2_Witness ==
    /\ epc = "loop" /\ pos = 1 /\ calls = 1 /\ ~ignore_labels
    /\ Triples(examples[1].gold_spans) = << <<0, 2, <<"E">> >> >>
    /\ Triples(pred_spans) = << <<0, 1, <<"E">> >>, <<0, 1, <<"E">> >> >>
    /\ tp = 0 /\ fp = 1 /\ fn = 1

\* a and b are the same number
SameValue(a, b) == ~Raises(a) /\ ~Raises(b) /\ a.num * b.den = b.num * a.den

\* C8: evaluate never fails on a zero denominator. precision is 0.0 when
\* tp+fp = 0 and tp/(tp+fp) otherwise, recall is 0.0 when tp+fn = 0 and
\* tp/(tp+fn) otherwise, F1 is 0.0 when precision+recall = 0 and 2PR/(P+R)
\* (= 2tp/(2tp+fp+fn)) otherwise.
C8_MetricsDefined ==
    /\ epc # "aborted"
    /\ epc = "done" =>
          /\ report.true_positives = tp /\ report.false_positives = fp
          /\ report.false_negatives = fn
          /\ SameValue(report.precision, IF tp + fp = 0 THEN Frac(0, 1) ELSE Frac(tp, tp + fp))
          /\ SameValue(report.recall, IF tp + fn = 0 THEN Frac(0, 1) ELSE Frac(tp, tp + fn))
          /\ SameValue(report.f1, IF tp = 0 THEN Frac(0, 1) ELSE Frac(2 * tp, 2 * tp + fp + fn))

\* C8 witness: tp=1, fp=1, fn=0 gives precision 1/2 and recall 1.
C8_Witness ==
    /\ epc = "done"
    /\ tp = 1 /\ fp = 1 /\ fn = 0
    /\ SameValue(report.precision, Frac(1, 2))
    /\ SameValue(report.recall, Frac(1, 1))

\* C2, a label mismatch on equal offsets: one fp, one fn, no tp.
C2_LabelMismatchReached ==
    /\ epc = "loop" /\ pos = 1 /\ calls = 1 /\ ~ignore_labels
    /\ Triples(examples[1].gold_spans) = << <<0, 2, <<"E">> >> >>
    /\ Triples(pred_spans) = << <<0, 2, <<"P">> >> >>
    /\ tp = 0 /\ fp = 1 /\ fn = 1

\* C8, the all-empty run: examples without gold spans, no predictions.
C8_EmptyRunReached ==
    /\ epc = "done" /\ Len(examples) = MaxExamples
    /\ tp = 0 /\ fp = 0 /\ fn = 0
    /\ report.precision = Zero /\ report.recall = Zero /\ report.f1 = Zero

\* C9: whatever the client does on an example (deanonymize raises, returns
\* another text, or nothing is predicted) the loop goes on to the next
\* example: the sample counter grows by one, the fidelity counter grows
\* exactly when deanonymize returned the original text, the example's distinct
\* predicted and gold spans are added to tp/fp/fn, and the returned report's
\* samples is the number of examples.
C9_RunCompletes ==
    /\ [][(epc = "loop" /\ pos < Len(examples)) => epc' = "loop"]_vars
    /\ [][(epc = "loop" /\ pos < Len(examples) /\ pos' # pos) =>
            LET ex == examples[pos']
            IN  /\ pos' = pos + 1
                /\ total' = total + 1
                /\ deanonym_ok' = deanonym_ok + (IF deanon' = ex.text THEN 1 ELSE 0)
                /\ (tp' - tp) + (fp' - fp) = Cardinality(Firsts(pred_spans'))
                /\ (tp' - tp) + (fn' - fn) = Cardinality(Firsts(ex.gold_spans))]_vars
    /\ [](epc = "done" => (report.samples = Len(examples) /\ pos = Len(examples)))
    /\ [](epc # "aborted")

\* C9 witness: the first example passed, deanonymize raised on the second,
\* and both examples' matches were counted.
C9_Witness ==
    /\ epc = "done" /\ Len(examples) = 2
    /\ deanon = Raised
    /\ deanonym_ok = 1
    /\ report.samples = 2
    /\ tp = 2

\* C10: the counters are zeroed when an evaluate call starts and never
\* decrease elsewhere, a call leaves its examples as they were, and a later
\* call on the same examples with the same predictions returns the dict the
\* first call returned.
C10_RescoringIdempotent ==
    /\ [](epc = "done" /\ calls >= 2 => report = first_report)
    /\ [][(epc \in {"ready", "done"} /\ epc' = "loop") =>
            (tp' = 0 /\ fp' = 0 /\ fn' = 0 /\ total' = 0)]_vars
    /\ [][(tp' < tp \/ fp' < fp \/ fn' < fn \/ total' < total) =>
            (epc \in {"ready", "done"} /\ epc' = "loop")]_vars
    /\ [][examples' = examples]_vars

\* C10 witness: a second call has returned with non-zero counts.
C10_Witness ==
    /\ epc = "done" /\ calls = 2
    /\ tp >= 1 /\ fp >= 1 /\ fn >= 1
    /\ report.samples = 2

\* --------------------------------------------------------- loader inputs
\* the limit argument: None, or an integer from 0 to MaxLimit
Limits == {None} \cup {<<n>> : n \in 0..MaxLimit}

\* -------------------------------------------------------- loader actions
LoadInit ==
    /\ data \in SeqsUpTo(Entries, MaxEntries)
    /\ limit = None
    /\ lpc = "file"
    /\ loaded = <<>>
    /\ CodecIdle
    /\ TokIdle
    /\ EvalIdle

\* examples = load_dataset(path, limit=lim)
LoadDatasetCall ==
    /\ lpc = "file"
    /\ \E lim \in Limits :
          /\ limit' = lim
          /\ loaded' = LoadDataset(data, lim)
    /\ lpc' = "loaded"
    /\ UNCHANGED <<data, codecVars, tokVars, evalVars>>

LoadNext == LoadDatasetCall

SpecLoad == LoadInit /\ [][LoadNext]_vars

\* ----------------------------------------------- loader: claim vocabulary
\* the example the claim expects for a dataset entry: its tokens, tags and
\* flags as they are, the detokenized text and the gold spans
Carries(example, entry) ==
    /\ example.tokens = entry.tokens
    /\ example.tags = entry.ner_tags
    /\ example.space_after = entry.space_after
    /\ example.text = DetokenizeWithOffsets(entry.tokens, entry.space_after).text
    /\ example.gold_spans = Bio2ToSpans(entry.tokens, entry.ner_tags, entry.space_after)

\* the returned list is the first n entries of the file, in file order
FirstEntriesLoaded(n) ==
    /\ Len(loaded) = n
    /\ \A k \in 1..n : Carries(loaded[k], data[k])

\* C15 (as claimed): load_dataset returns at most limit examples for every
\* integer limit >= 0, namely the first min(limit, n) of the n entries in file
\* order, and all n entries when limit is None; every example carries its
\* entry's tokens, tags and flags with the text and gold spans built from them.
C15_AtMostLimit ==
    lpc = "loaded" =>
        IF limit = None
        THEN FirstEntriesLoaded(Len(data))
        ELSE /\ Len(loaded) <= limit[1]
             /\ FirstEntriesLoaded(Min(limit[1], Len(data)))

\* C15, the same statement for limit None and for limits of at least 1.
C15_AtMostPositiveLimit ==
    (limit = None \/ limit[1] >= 1) => C15_AtMostLimit

====
